---- MODULE Spec2Model ----
(***************************************************************************)
(* zcloudpass-app: the web client of a password manager.                   *)
(*                                                                         *)
(*   - the vault envelope codec (lib/crypto: createEmptyVault,             *)
(*     encryptVault, decryptVault), a symbolic model of the authenticated  *)
(*     encryption that the components import;                              *)
(*   - the API client (lib/api.ts) and the remote service it talks to;     *)
(*   - the Register, Login, Vault and Settings screens and the router;     *)
(*   - the password generator dialog.                                      *)
(***************************************************************************)
EXTENDS Integers, Sequences, FiniteSets, TLC

VARIABLES
  rng,       \* the secure random source: the number of values drawn so far
  codecIn,   \* the vault and the master password handed to the codec
  envs,      \* the envelopes encryptVault returned for codecIn, in call order
  dec        \* the decryptVault call of the last step: envelope, password, result

VARIABLES
  localStorage,     \* the browser's localStorage: key -> string
  isAuthenticated,  \* AppContent.isAuthenticated
  path,             \* the route the router shows
  server,           \* the remote service: account, stored envelope, session
  wire,             \* the requests sent by the last step, in order
  pending,          \* the Vault screen's API calls that have not returned
  logoutTimer,      \* Settings: the setTimeout(onLogout, 2000) is armed
  now               \* Date.now()

VARIABLES
  vault,            \* Vault.vault
  loading,          \* loading of the mounted screen
  saving,           \* Vault.saving
  error,            \* error of the mounted screen
  success,          \* Settings.success
  masterPassword,   \* Vault.masterPassword
  unlocked,         \* Vault.unlocked
  selectedEntry,    \* Vault.selectedEntry
  viewMode          \* Vault.viewMode

VARIABLES
  mode,             \* PasswordGenerator.mode
  policy,           \* PasswordGenerator: length and the include/exclude switches
  phrase,           \* PasswordGenerator: wordCount, separator, capitalize, includeNumber
  generated,        \* PasswordGenerator.password
  generating,       \* generateRandomPassphrase is in its word selection loop
  selectedWords,    \* generateRandomPassphrase: selectedWords
  usedIndices,      \* generateRandomPassphrase: usedIndices
  lastIndex,        \* generateRandomPassphrase: index of the last iteration, if any
  sources           \* the random sources the last generation drew from

codecVars == <<codecIn, envs, dec>>
genVars == <<mode, policy, phrase, generated, generating, selectedWords, usedIndices,
             lastIndex, sources>>
screenVars == <<vault, loading, saving, error, success, masterPassword,
                unlocked, selectedEntry, viewMode>>
appVars == <<localStorage, isAuthenticated, path, server, wire, pending,
             logoutTimer, now>>
vars == <<rng, codecVars, appVars, screenVars, genVars>>

(***************************************************************************)
(* Bounds of the model.                                                    *)
(***************************************************************************)
MaxEntries == 2
MaxCalls == 2
MaxEncryptions == 3
MaxInflight == 1
MaxClock == 2
MaxPolicyLength == 8
MaxPhraseWords == 3

(***************************************************************************)
(* Values.                                                                 *)
(***************************************************************************)
\* An optional field of an entry is absent (<<>>) or holds one string.
Absent == <<>>
Some(s) == <<s>>

\* null, for values of type `string | null` and `Vault | null`.
Null == <<>>

EntryIds == 1..MaxEntries

\* Date.now().toString(): the decimal string of the clock value
IdOf(n) == ToString(n)

\* VaultEntry (lib/crypto): id and name required, four optional strings
VaultEntry ==
  [id : {IdOf(n) : n \in EntryIds}, name : {"a"},
   username : {Absent, Some("u")}, password : {Absent, Some("s")},
   url : {Absent, Some("w")}, notes : {Absent, Some("t")}]

RECURSIVE SeqsUpTo(_, _)
SeqsUpTo(S, n) ==
  IF n = 0 THEN {<<>>}
  ELSE LET shorter == SeqsUpTo(S, n - 1)
       IN shorter \cup {Append(q, e) : q \in {r \in shorter : Len(r) = n - 1}, e \in S}

UniqueIds(entries) ==
  \A i, j \in 1..Len(entries) : entries[i].id = entries[j].id => i = j

\* Vault (lib/crypto): an ordered collection of entries with unique ids
Vaults == {[entries |-> es] : es \in {q \in SeqsUpTo(VaultEntry, MaxEntries) : UniqueIds(q)}}

\* createEmptyVault()
createEmptyVault == [entries |-> <<>>]

MasterPasswords == {"hunter2222", "letmein123"}

(***************************************************************************)
(* The vault envelope codec.                                               *)
(***************************************************************************)
EnvelopeVersion == 1
KdfCost == 3

AuthenticationFailed == [error |-> "AuthenticationFailed"]
MalformedEnvelope == [error |-> "MalformedEnvelope"]
MalformedPlaintext == [error |-> "MalformedPlaintext"]
Ok(v) == [vault |-> v]
IsOk(r) == "vault" \in DOMAIN r

\* A serialization that writes an absent optional field as the empty string
SerializeEntryPadded(e) ==
  LET opt(k) == IF e[k] = Absent THEN << <<k, "">> >> ELSE << <<k, e[k][1]>> >>
  IN << <<"id", e.id>>, <<"name", e.name>> >>
       \o opt("username") \o opt("password") \o opt("url") \o opt("notes")

\* The serialized form of one entry: its fields in a fixed order, as
\* key/value pairs, an absent optional field being left out.
SerializeEntry(e) ==
  LET opt(k) == IF e[k] = Absent THEN <<>> ELSE << <<k, e[k][1]>> >>
  IN << <<"id", e.id>>, <<"name", e.name>> >>
       \o opt("username") \o opt("password") \o opt("url") \o opt("notes")

SerializeVault(v) == [i \in 1..Len(v.entries) |-> SerializeEntry(v.entries[i])]

HasKey(pairs, k) == \E i \in 1..Len(pairs) : pairs[i][1] = k
ValueOf(pairs, k) == pairs[CHOOSE i \in 1..Len(pairs) : pairs[i][1] = k][2]

DeserializeEntry(pairs) ==
  LET opt(k) == IF HasKey(pairs, k) THEN Some(ValueOf(pairs, k)) ELSE Absent
  IN [id |-> ValueOf(pairs, "id"), name |-> ValueOf(pairs, "name"),
      username |-> opt("username"), password |-> opt("password"),
      url |-> opt("url"), notes |-> opt("notes")]

WellFormedPlaintext(pt) ==
  \A i \in 1..Len(pt) : HasKey(pt[i], "id") /\ HasKey(pt[i], "name")

DeserializeVault(pt) == [entries |-> [i \in 1..Len(pt) |-> DeserializeEntry(pt[i])]]

\* A derivation that ignores the password
DeriveKeyUnsalted(password, salt, cost) == <<"", salt, cost>>

\* The key derived from the password, the salt and the cost parameter.
DeriveKey(password, salt, cost) == <<password, salt, cost>>

\* Authenticated encryption: the ciphertext and its tag.  body and tag tell
\* whether a byte of that region differs from what the cipher produced.
AeadSeal(key, nonce, pt) ==
  [key |-> key, nonce |-> nonce, pt |-> pt, body |-> FALSE, tag |-> FALSE]

\* A decryption that does not verify the tag
AeadOpenUnverified(key, nonce, ct) ==
  IF ct.key = key /\ ct.nonce = nonce
  THEN [ok |-> TRUE, pt |-> ct.pt] ELSE [ok |-> FALSE, pt |-> <<>>]

\* Decryption verifies the tag: it yields the plaintext only under the key
\* and nonce of the encryption and for untouched bytes.
AeadOpen(key, nonce, ct) ==
  IF ct.key = key /\ ct.nonce = nonce /\ ~ct.body /\ ~ct.tag
  THEN [ok |-> TRUE, pt |-> ct.pt] ELSE [ok |-> FALSE, pt |-> <<>>]

\* No decryptVault call
NoDecrypt == <<>>

\* The envelope as one opaque string: version, KDF parameters, salt, nonce,
\* ciphertext and tag.
EncodeEnvelope(version, cost, salt, nonce, ct) == <<version, "kdf", cost, salt, nonce, ct>>

\* encryptVault(vault, masterPassword), v being the vault, with the salt and
\* the nonce it drew
encryptVault(v, password, salt, nonce) ==
  LET key == DeriveKey(password, salt, KdfCost)
  IN EncodeEnvelope(EnvelopeVersion, KdfCost, salt, nonce,
                    AeadSeal(key, nonce, SerializeVault(v)))

\* decryptVault(envelopeString, masterPassword)
decryptVault(envelope, password) ==
  IF Len(envelope) # 6 \/ envelope[1] # EnvelopeVersion
  THEN MalformedEnvelope
  ELSE LET key == DeriveKey(password, envelope[4], envelope[3])
           opened == AeadOpen(key, envelope[5], envelope[6])
       IN IF ~opened.ok THEN AuthenticationFailed
          ELSE IF ~WellFormedPlaintext(opened.pt) THEN MalformedPlaintext
          ELSE Ok(DeserializeVault(opened.pt))

\* One byte of the ciphertext (body) or tag region of the envelope changed.
TamperEnvelope(envelope, region) ==
  [envelope EXCEPT ![6] = [@ EXCEPT ![region] = TRUE]]

(***************************************************************************)
(* The secure random source: crypto.getRandomValues.  A value it returns   *)
(* is taken to differ from every value it returned before.                 *)
(***************************************************************************)
\* A source that restarts its sequence at every call
RandomValueRepeated(drawn, k) == k

\* The k-th value drawn after `drawn` values were drawn
RandomValue(drawn, k) == drawn + k

(***************************************************************************)
(* The password generator dialog.  A string is the sequence of its         *)
(* characters.                                                             *)
(***************************************************************************)
uppercase ==
  <<"A", "B", "C", "D", "E", "F", "G", "H", "I", "J", "K", "L", "M",
    "N", "O", "P", "Q", "R", "S", "T", "U", "V", "W", "X", "Y", "Z">>
lowercase ==
  <<"a", "b", "c", "d", "e", "f", "g", "h", "i", "j", "k", "l", "m",
    "n", "o", "p", "q", "r", "s", "t", "u", "v", "w", "x", "y", "z">>
numbers == <<"0", "1", "2", "3", "4", "5", "6", "7", "8", "9">>
symbols ==
  <<"!", "@", "#", "$", "%", "^", "&", "*", "(", ")", "_", "+", "-",
    "=", "[", "]", "{", "}", "|", ";", ":", ",", ".", "<", ">", "?">>
ambiguous == <<"i", "l", "1", "L", "o", "0", "O">>

Chars(str) == {str[i] : i \in 1..Len(str)}

\* The bounds of the length slider
MinLength == 8
MaxLength == 64

\* The state of the dialog when it opens
DefaultPolicy ==
  [length |-> 16, includeUppercase |-> TRUE, includeLowercase |-> TRUE,
   includeNumbers |-> TRUE, includeSymbols |-> TRUE, excludeAmbiguous |-> FALSE]

\* The settings of the password mode
Policies ==
  [length : {n \in MinLength..MaxLength : n <= MaxPolicyLength}, includeUppercase : BOOLEAN,
   includeLowercase : BOOLEAN, includeNumbers : BOOLEAN,
   includeSymbols : BOOLEAN, excludeAmbiguous : BOOLEAN]

\* The values of crypto.getRandomValues(new Uint32Array(length)) considered
RandomWords == {0, 2147483647}

\* The values of Math.random() considered, as fractions <<n, d>> in [0, 1)
MathRandoms == {<<0, 1>>, <<1, 2>>, <<99, 100>>}

\* Math.floor(r * n)
FloorTimes(r, n) == (r[1] * n) \div r[2]

\* generateRandomPassword: the union of the enabled categories, without the
\* ambiguous characters when excludeAmbiguous is set
ActiveCharset(p) ==
  LET all == (IF p.includeUppercase THEN uppercase ELSE <<>>)
               \o (IF p.includeLowercase THEN lowercase ELSE <<>>)
               \o (IF p.includeNumbers THEN numbers ELSE <<>>)
               \o (IF p.includeSymbols THEN symbols ELSE <<>>)
      clear(char) == char \notin Chars(ambiguous)
  IN IF p.excludeAmbiguous THEN SelectSeq(all, clear) ELSE all

\* generateRandomPassword: the charset drawn from, lowercase when the active
\* charset is empty
Charset(p) == IF Len(ActiveCharset(p)) = 0 THEN lowercase ELSE ActiveCharset(p)

\* generateRandomPassword: result[i] = charset[array[i] % charset.length]
DrawChars(charset, array) ==
  [i \in 1..Len(array) |-> charset[(array[i] % Len(charset)) + 1]]

\* The number of values w of a Uint32 random word with w % n = i, for n >= 3:
\* 2^32 = 4 * 2^30 values, of which the first 2^32 % n indices get one more
WordsSelecting(i, n) ==
  LET a == (2^30) \div n
      b == (2^30) % n
  IN 4 * a + (4 * b) \div n + (IF i < (4 * b) % n THEN 1 ELSE 0)

\* generateRandomPassword: the categories of which a character is ensured
EnsureChars(p) ==
  (IF p.includeUppercase THEN <<uppercase>> ELSE <<>>)
    \o (IF p.includeLowercase THEN <<lowercase>> ELSE <<>>)
    \o (IF p.includeNumbers THEN <<numbers>> ELSE <<>>)
    \o (IF p.includeSymbols THEN <<symbols>> ELSE <<>>)

\* A replacement that keeps the character at pos: result.substring(pos)
ReplaceAtKeeping(result, pos, randomChar) ==
  SubSeq(result, 1, pos) \o <<randomChar>> \o SubSeq(result, pos + 1, Len(result))

\* result.substring(0, pos) + randomChar + result.substring(pos + 1)
ReplaceAt(result, pos, randomChar) ==
  SubSeq(result, 1, pos) \o <<randomChar>> \o SubSeq(result, pos + 2, Len(result))

\* generateRandomPassword: the ensureChars.forEach loop from category k on,
\* for every value of its Math.random() calls
RECURSIVE EnsureFrom(_, _, _)
EnsureFrom(result, ensureChars, k) ==
  IF k > Len(ensureChars) THEN {result}
  ELSE IF \E i \in 1..Len(result) : result[i] \in Chars(ensureChars[k])
  THEN EnsureFrom(result, ensureChars, k + 1)
  ELSE UNION {EnsureFrom(ReplaceAt(result, FloorTimes(r2, Len(result)),
                                   ensureChars[k][FloorTimes(r1, Len(ensureChars[k])) + 1]),
                         ensureChars, k + 1) : r1 \in MathRandoms, r2 \in MathRandoms}

\* The random sources
SecureSource == "crypto.getRandomValues"
GeneralSource == "Math.random"

\* generateRandomPassword: the sources drawn from when the draw gave result:
\* the coverage step calls Math.random() when a category is missing
PasswordSources(result, ensureChars) ==
  {SecureSource} \cup
    (IF \E k \in 1..Len(ensureChars) :
          \A i \in 1..Len(result) : result[i] \notin Chars(ensureChars[k])
     THEN {GeneralSource} ELSE {})

\* generateRandomPassword(): the passwords it can return for the settings p,
\* each with the random sources drawn from
generateRandomPassword(p) ==
  UNION {LET drawn == DrawChars(Charset(p), array)
         IN {[password |-> w, sources |-> PasswordSources(drawn, EnsureChars(p))] :
               w \in EnsureFrom(drawn, EnsureChars(p), 1)} :
           array \in [1..p.length -> RandomWords]}

(***************************************************************************)
(* The passphrase mode of the generator.                                   *)
(***************************************************************************)
WORD_LIST ==
  <<<<"c", "o", "r", "r", "e", "c", "t">>,
    <<"h", "o", "r", "s", "e">>,
    <<"b", "a", "t", "t", "e", "r", "y">>,
    <<"s", "t", "a", "p", "l", "e">>,
    <<"d", "r", "a", "g", "o", "n">>,
    <<"m", "o", "n", "k", "e", "y">>,
    <<"p", "u", "z", "z", "l", "e">>,
    <<"s", "e", "c", "r", "e", "t">>,
    <<"c", "a", "s", "t", "l", "e">>,
    <<"t", "h", "u", "n", "d", "e", "r">>,
    <<"r", "a", "i", "n", "b", "o", "w">>,
    <<"g", "a", "l", "a", "x", "y">>,
    <<"p", "l", "a", "n", "e", "t">>,
    <<"o", "c", "e", "a", "n">>,
    <<"m", "o", "u", "n", "t", "a", "i", "n">>,
    <<"f", "o", "r", "e", "s", "t">>,
    <<"r", "i", "v", "e", "r">>,
    <<"s", "u", "n", "s", "e", "t">>,
    <<"c", "o", "f", "f", "e", "e">>,
    <<"w", "i", "z", "a", "r", "d">>,
    <<"k", "n", "i", "g", "h", "t">>,
    <<"p", "h", "o", "e", "n", "i", "x">>,
    <<"c", "r", "y", "s", "t", "a", "l">>,
    <<"s", "h", "a", "d", "o", "w">>,
    <<"s", "i", "l", "v", "e", "r">>,
    <<"g", "o", "l", "d", "e", "n">>,
    <<"d", "i", "a", "m", "o", "n", "d">>,
    <<"e", "m", "e", "r", "a", "l", "d">>,
    <<"t", "i", "g", "e", "r">>,
    <<"e", "a", "g", "l", "e">>,
    <<"w", "o", "l", "f">>,
    <<"f", "a", "l", "c", "o", "n">>,
    <<"a", "n", "c", "h", "o", "r">>,
    <<"c", "o", "m", "p", "a", "s", "s">>,
    <<"v", "o", "y", "a", "g", "e">>,
    <<"i", "s", "l", "a", "n", "d">>,
    <<"t", "r", "e", "a", "s", "u", "r", "e">>,
    <<"c", "a", "p", "t", "a", "i", "n">>,
    <<"p", "i", "r", "a", "t", "e">>,
    <<"m", "e", "r", "m", "a", "i", "d">>,
    <<"u", "n", "i", "c", "o", "r", "n">>,
    <<"g", "r", "i", "f", "f", "i", "n">>,
    <<"c", "e", "n", "t", "a", "u", "r">>,
    <<"p", "e", "g", "a", "s", "u", "s">>,
    <<"k", "r", "a", "k", "e", "n">>,
    <<"a", "t", "l", "a", "n", "t", "i", "s">>,
    <<"o", "l", "y", "m", "p", "u", "s">>,
    <<"v", "a", "l", "h", "a", "l", "l", "a">>,
    <<"n", "e", "b", "u", "l", "a">>,
    <<"c", "o", "s", "m", "o", "s">>,
    <<"m", "e", "t", "e", "o", "r">>,
    <<"c", "o", "m", "e", "t">>,
    <<"a", "u", "r", "o", "r", "a">>,
    <<"e", "c", "l", "i", "p", "s", "e">>,
    <<"s", "o", "l", "s", "t", "i", "c", "e">>,
    <<"e", "q", "u", "i", "n", "o", "x">>,
    <<"q", "u", "a", "n", "t", "u", "m">>,
    <<"n", "e", "u", "t", "r", "o", "n">>,
    <<"p", "h", "o", "t", "o", "n">>,
    <<"e", "l", "e", "c", "t", "r", "o", "n">>,
    <<"p", "r", "o", "t", "o", "n">>,
    <<"p", "a", "r", "t", "i", "c", "l", "e">>,
    <<"e", "n", "e", "r", "g", "y">>,
    <<"v", "e", "l", "o", "c", "i", "t", "y">>,
    <<"h", "a", "r", "m", "o", "n", "y">>,
    <<"m", "e", "l", "o", "d", "y">>,
    <<"r", "h", "y", "t", "h", "m">>,
    <<"s", "y", "m", "p", "h", "o", "n", "y">>,
    <<"c", "h", "o", "r", "u", "s">>,
    <<"s", "o", "n", "a", "t", "a">>,
    <<"c", "o", "n", "c", "e", "r", "t", "o">>,
    <<"p", "r", "e", "l", "u", "d", "e">>,
    <<"c", "r", "i", "m", "s", "o", "n">>,
    <<"s", "c", "a", "r", "l", "e", "t">>,
    <<"a", "z", "u", "r", "e">>,
    <<"v", "i", "o", "l", "e", "t">>,
    <<"a", "m", "b", "e", "r">>,
    <<"j", "a", "d", "e">>,
    <<"i", "v", "o", "r", "y">>,
    <<"e", "b", "o", "n", "y">>,
    <<"t", "h", "u", "n", "d", "e", "r">>,
    <<"l", "i", "g", "h", "t", "n", "i", "n", "g">>,
    <<"b", "l", "i", "z", "z", "a", "r", "d">>,
    <<"t", "e", "m", "p", "e", "s", "t">>,
    <<"m", "o", "n", "s", "o", "o", "n">>,
    <<"t", "y", "p", "h", "o", "o", "n">>,
    <<"c", "y", "c", "l", "o", "n", "e">>,
    <<"t", "o", "r", "n", "a", "d", "o">>,
    <<"g", "l", "a", "c", "i", "e", "r">>,
    <<"v", "o", "l", "c", "a", "n", "o">>,
    <<"d", "e", "s", "e", "r", "t">>,
    <<"t", "u", "n", "d", "r", "a">>,
    <<"p", "r", "a", "i", "r", "i", "e">>,
    <<"c", "a", "n", "y", "o", "n">>,
    <<"v", "a", "l", "l", "e", "y">>,
    <<"s", "u", "m", "m", "i", "t">>,
    <<"o", "r", "c", "h", "i", "d">>,
    <<"l", "o", "t", "u", "s">>,
    <<"j", "a", "s", "m", "i", "n", "e">>,
    <<"t", "u", "l", "i", "p">>,
    <<"r", "o", "s", "e">>,
    <<"l", "i", "l", "y">>,
    <<"d", "a", "i", "s", "y">>,
    <<"v", "i", "o", "l", "e", "t">>,
    <<"m", "a", "p", "l", "e">>,
    <<"w", "i", "l", "l", "o", "w">>,
    <<"c", "e", "d", "a", "r">>,
    <<"p", "i", "n", "e">>,
    <<"b", "i", "r", "c", "h">>,
    <<"o", "a", "k">>,
    <<"e", "l", "m">>,
    <<"a", "s", "h">>>>

SEPARATORS == << <<"-">>, <<"_">>, <<".">>, <<",">>, <<" ">>, <<>> >>
CAPITALIZE_OPTIONS == <<"none", "first", "all", "random">>

\* The bounds of the word count slider
MinWords == 3
MaxWords == 8

\* The state of the passphrase settings when the dialog opens
DefaultPhrase ==
  [wordCount |-> 4, separator |-> <<"-">>, capitalize |-> "first", includeNumber |-> TRUE]

\* The settings of the passphrase mode
PhrasePolicies ==
  [wordCount : {n \in MinWords..MaxWords : n <= MaxPhraseWords},
   separator : {SEPARATORS[i] : i \in 1..Len(SEPARATORS)},
   capitalize : {CAPITALIZE_OPTIONS[i] : i \in 1..Len(CAPITALIZE_OPTIONS)},
   includeNumber : BOOLEAN]

\* The values of Math.random() considered in the word selection loop
WordRandoms == {<<0, 1>>, <<9, 112>>, <<80, 112>>, <<111, 112>>}

\* ch.toUpperCase() for one character
ToUpperCase(ch) ==
  IF ch \in Chars(lowercase)
  THEN uppercase[CHOOSE i \in 1..Len(lowercase) : lowercase[i] = ch]
  ELSE ch

\* A capitalization that treats every word as the first one
CapitalizeWordAny(word, idx, option, r) ==
  IF option = "all" \/ option = "first" \/ (option = "random" /\ 2 * r[1] > r[2])
  THEN <<ToUpperCase(word[1])>> \o Tail(word)
  ELSE word

\* generateRandomPassphrase: the map callback, idx counting from 0 and r being
\* the value of Math.random() in random mode
CapitalizeWord(word, idx, option, r) ==
  IF option = "all" \/ (option = "first" /\ idx = 0)
     \/ (option = "random" /\ 2 * r[1] > r[2])
  THEN <<ToUpperCase(word[1])>> \o Tail(word)
  ELSE word

\* words.join(separator)
RECURSIVE Join(_, _)
Join(ws, separator) ==
  IF Len(ws) = 0 THEN <<>>
  ELSE IF Len(ws) = 1 THEN ws[1]
  ELSE ws[1] \o separator \o Join(Tail(ws), separator)

\* The decimal string of a number
RECURSIVE NumberToString(_)
NumberToString(n) ==
  IF n < 10 THEN <<numbers[n + 1]>>
  ELSE NumberToString(n \div 10) \o <<numbers[(n % 10) + 1]>>

\* generateRandomPassphrase after the selection loop: capitalization, join
\* and trailing number, rs being the values of Math.random() per word and rn
\* the one of the number
FinishedPassphrase(ws, p, rs, rn) ==
  LET capitalizedWords ==
        [i \in 1..Len(ws) |-> CapitalizeWord(ws[i], i - 1, p.capitalize, rs[i])]
      result == Join(capitalizedWords, p.separator)
  IN IF p.includeNumber
     THEN result \o p.separator \o NumberToString(FloorTimes(rn, 9999))
     ELSE result

\* The generator dialog before it is opened
GeneratorClosed ==
  /\ mode = "password"
  /\ policy = DefaultPolicy
  /\ phrase = DefaultPhrase
  /\ generated = <<>>
  /\ generating = FALSE
  /\ selectedWords = <<>>
  /\ usedIndices = {}
  /\ lastIndex = Null
  /\ sources = {}

(***************************************************************************)
(* The application: router, API client, remote service, screens.           *)
(***************************************************************************)
Email == "user@example.com"
SessionToken == "token"
ShortPassword == "short"

NoTokenMessage == "No session token found"
SessionExpiredMessage == "Session expired. Please login again."
UnlockFailedMessage == "Failed to unlock vault. Wrong password?"
NoVaultMessage == "No vault found"
ChangedMessage == "Password changed successfully! Please log in again."

\* ApiClient.handleResponse: the message of the error thrown for a status
ApiErrorMessage(status) ==
  IF status = 401 THEN SessionExpiredMessage ELSE "API error " \o ToString(status)

\* ApiClient.isAuthenticated / getAuthHeader: a session token is stored
HasToken(ls) == "session_token" \in DOMAIN ls

\* localStorage.setItem / removeItem
SetItem(ls, k, v) == [x \in DOMAIN ls \cup {k} |-> IF x = k THEN v ELSE ls[x]]
RemoveItem(ls, k) == [x \in DOMAIN ls \ {k} |-> ls[x]]

\* ApiClient.handleResponse on the stored token: a 401 removes it
AfterResponse(ls, status) == IF status = 401 THEN RemoveItem(ls, "session_token") ELSE ls

\* A request to the remote service.  storing is not part of the request: it
\* is the vault whose envelope the caller put into the body.
Request(op, body, storing) == [op |-> op, body |-> body, storing |-> storing]
NoBody == [x \in {} |-> ""]
GetVaultRequest == Request("getVault", NoBody, Null)

\* Routes without the redirects
ResolveOpen(p, auth) == p

\* AppContent routes: the path shown for a requested path, after <Navigate>
Resolve(p, auth) ==
  IF auth THEN (IF p \in {"/vault", "/settings"} THEN p ELSE "/vault")
  ELSE (IF p \in {"/vault", "/settings"} THEN "/login" ELSE p)

\* An API call of the Vault screen that has not returned, with the values its
\* closure captured.
LoadOp ==
  [kind |-> "load", stage |-> "sent", status |-> 0, body |-> Null,
   password |-> "", envelope |-> Null, updatedVault |-> Null,
   selected |-> Null, thenSelect |-> Null]

\* The remote service before the application starts: no account yet
NoAccount ==
  [registered |-> FALSE, master_password |-> "", encrypted_vault |-> Null,
   session |-> FALSE]

AppStart ==
  /\ localStorage = [theme |-> "dark"]
  /\ isAuthenticated = FALSE
  /\ path = "/"
  /\ server = NoAccount
  /\ wire = <<>>
  /\ pending = {}
  /\ logoutTimer = FALSE
  /\ now = 1
  /\ vault = Null
  /\ loading = FALSE
  /\ saving = FALSE
  /\ error = ""
  /\ success = ""
  /\ masterPassword = ""
  /\ unlocked = FALSE
  /\ selectedEntry = Null
  /\ viewMode = "view"

Init ==
  /\ rng = 0
  /\ codecIn = [vault |-> createEmptyVault, password |-> ""]
  /\ envs = <<>>
  /\ dec = NoDecrypt
  /\ AppStart
  /\ GeneratorClosed

\* A screen is mounted at path p: its state is the initial state of its
\* component; the Vault screen calls loadVault from its mount effect, and
\* api.getVault throws before sending when no token is stored.  A screen is
\* left once the calls of the Vault screen have returned (ops is empty).
Enter(p, ls, ops, sentBefore) ==
  LET loads == p = "/vault" /\ HasToken(ls)
  IN /\ path' = p
     /\ vault' = Null
     /\ saving' = FALSE
     /\ success' = ""
     /\ masterPassword' = ""
     /\ unlocked' = FALSE
     /\ selectedEntry' = Null
     /\ viewMode' = "view"
     /\ loading' = loads
     /\ error' = IF p = "/vault" /\ ~loads THEN NoTokenMessage ELSE ""
     /\ ops = {}
     /\ pending' = IF loads THEN {LoadOp} ELSE {}
     /\ dec' = NoDecrypt /\ wire' = sentBefore \o (IF loads THEN <<GetVaultRequest>> ELSE <<>>)

\* AppContent.handleLoginSuccess
handleLoginSuccess(ls, sentBefore) ==
  /\ isAuthenticated' = TRUE
  /\ Enter("/vault", ls, pending, sentBefore)

\* AppContent.handleLogout
handleLogout(ls, ops) ==
  /\ localStorage' = RemoveItem(ls, "session_token")
  /\ isAuthenticated' = FALSE
  /\ Enter("/", RemoveItem(ls, "session_token"), ops, <<>>)

\* A <Link> or navigate() of the mounted screen
Links ==
  CASE path = "/" -> {"/login", "/register"}
    [] path = "/login" -> {"/register"}
    [] path = "/register" -> {"/login"}
    [] path = "/vault" -> IF ~loading /\ unlocked THEN {"/settings"} ELSE {}
    [] path = "/settings" -> {"/vault"}

Navigate ==
  \E p \in Links :
    /\ Enter(Resolve(p, isAuthenticated), localStorage, pending, <<>>)
    /\ UNCHANGED <<rng, codecIn, envs, genVars, localStorage, isAuthenticated, server, logoutTimer, now>>

\* The page is loaded at a URL: AppContent mounts with isAuthenticated false,
\* the routes redirect, then the mount effect sets isAuthenticated to
\* api.isAuthenticated() and the routes redirect again.  Timers of the
\* page before do not survive.
PageLoad ==
  \E p \in {"/", "/login", "/register", "/vault", "/settings"} :
    /\ isAuthenticated' = HasToken(localStorage)
    /\ logoutTimer' = FALSE
    /\ Enter(Resolve(Resolve(p, FALSE), HasToken(localStorage)), localStorage, pending, <<>>)
    /\ UNCHANGED <<rng, codecIn, envs, genVars, localStorage, server, now>>

\* The Log out button of the Vault header and of Settings
Logout ==
  /\ \/ path = "/vault" /\ ~loading /\ unlocked
     \/ path = "/settings"
  /\ handleLogout(localStorage, pending)
  /\ UNCHANGED <<rng, codecIn, envs, genVars, server, logoutTimer, now>>

\* A validation that accepts a short password
RegisterFormErrorLax(password, confirmPassword) ==
  IF password # confirmPassword THEN "Passwords do not match" ELSE ""

\* Register.handleSubmit: the error its validation sets, "" when the form
\* passes
RegisterFormError(password, confirmPassword) ==
  IF password # confirmPassword THEN "Passwords do not match"
  ELSE IF Len(password) < 8 THEN "Password must be at least 8 characters long"
  ELSE ""

\* Register.handleSubmit, with the outcome of the two requests
RegisterSubmit ==
  \E password \in MasterPasswords \cup {ShortPassword},
     confirmPassword \in MasterPasswords \cup {ShortPassword},
     registerUp \in BOOLEAN, loginUp \in BOOLEAN :
    /\ path = "/register"
    /\ now' = now /\ logoutTimer' = logoutTimer /\ UNCHANGED <<codecIn, envs, genVars>>
    /\ IF RegisterFormError(password, confirmPassword) # ""
       THEN /\ error' = RegisterFormError(password, confirmPassword)
            /\ dec' = NoDecrypt /\ wire' = <<>>
            /\ UNCHANGED <<rng, localStorage, isAuthenticated, path, server, pending,
                           vault, loading, saving, success, masterPassword,
                           unlocked, selectedEntry, viewMode>>
       ELSE /\ rng < 2 * MaxEncryptions
            /\ rng' = rng + 2
            /\ LET emptyVault == createEmptyVault
                   encryptedVault == encryptVault(emptyVault, password,
                                       RandomValue(rng, 1), RandomValue(rng, 2))
                   registerReq == Request("register",
                                    [email |-> Email, master_password |-> password,
                                     encrypted_vault |-> encryptedVault], emptyVault)
                   loginReq == Request("login",
                                 [email |-> Email, master_password |-> password], Null)
                   registerStatus == IF ~registerUp THEN 500
                                     ELSE IF server.registered THEN 409 ELSE 200
               IN IF registerStatus # 200
                  THEN /\ error' = ApiErrorMessage(registerStatus)
                       /\ dec' = NoDecrypt /\ wire' = <<registerReq>>
                       /\ UNCHANGED <<localStorage, isAuthenticated, path, server, pending,
                                      vault, loading, saving, success, masterPassword,
                                      unlocked, selectedEntry, viewMode>>
                  ELSE IF ~loginUp
                  THEN /\ server' = [server EXCEPT !.registered = TRUE,
                                       !.master_password = password,
                                       !.encrypted_vault = encryptedVault]
                       /\ error' = ApiErrorMessage(500)
                       /\ dec' = NoDecrypt /\ wire' = <<registerReq, loginReq>>
                       /\ UNCHANGED <<localStorage, isAuthenticated, path, pending,
                                      vault, loading, saving, success, masterPassword,
                                      unlocked, selectedEntry, viewMode>>
                  ELSE /\ server' = [registered |-> TRUE, master_password |-> password,
                                     encrypted_vault |-> encryptedVault, session |-> TRUE]
                       /\ localStorage' = SetItem(localStorage, "session_token", SessionToken)
                       /\ handleLoginSuccess(localStorage', <<registerReq, loginReq>>)

\* Login.handleSubmit, with the outcome of the request
LoginSubmit ==
  \E password \in MasterPasswords, up \in BOOLEAN :
    LET status == IF ~up THEN 500
                  ELSE IF server.registered /\ password = server.master_password
                  THEN 200 ELSE 401
        loginReq == Request("login", [email |-> Email, master_password |-> password], Null)
    IN /\ path = "/login"
       /\ UNCHANGED <<rng, codecIn, envs, genVars, logoutTimer, now>>
       /\ IF status = 200
          THEN /\ server' = [server EXCEPT !.session = TRUE]
               /\ localStorage' = SetItem(localStorage, "session_token", SessionToken)
               /\ handleLoginSuccess(localStorage', <<loginReq>>)
          ELSE /\ localStorage' = AfterResponse(localStorage, status)
               /\ error' = ApiErrorMessage(status)
               /\ dec' = NoDecrypt /\ wire' = <<loginReq>>
               /\ UNCHANGED <<isAuthenticated, path, server, pending, vault, loading,
                              saving, success, masterPassword, unlocked,
                              selectedEntry, viewMode>>

\* Settings.handleChangePassword, with the outcome of the request
ChangePasswordSubmit ==
  \E currentPassword \in MasterPasswords,
     newPassword \in MasterPasswords \cup {ShortPassword},
     confirmPassword \in MasterPasswords \cup {ShortPassword},
     up \in BOOLEAN :
    LET req == Request("changePassword",
                 [current_password |-> currentPassword, new_password |-> newPassword], Null)
        status == IF ~server.session THEN 401
                  ELSE IF ~up THEN 500
                  ELSE IF currentPassword # server.master_password THEN 400
                  ELSE 200
    IN /\ path = "/settings"
       /\ UNCHANGED <<rng, codecIn, envs, genVars, isAuthenticated, path, pending, now, vault,
                      loading, saving, masterPassword, unlocked, selectedEntry, viewMode>>
       /\ IF newPassword # confirmPassword \/ Len(newPassword) < 8
          THEN /\ error' = IF newPassword # confirmPassword
                           THEN "New passwords do not match"
                           ELSE "New password must be at least 8 characters long"
               /\ success' = ""
               /\ dec' = NoDecrypt /\ wire' = <<>>
               /\ UNCHANGED <<localStorage, server, logoutTimer>>
          ELSE IF ~HasToken(localStorage)
          THEN /\ error' = NoTokenMessage
               /\ success' = ""
               /\ dec' = NoDecrypt /\ wire' = <<>>
               /\ UNCHANGED <<localStorage, server, logoutTimer>>
          ELSE IF status = 200
          THEN /\ server' = [server EXCEPT !.master_password = newPassword]
               /\ success' = ChangedMessage
               /\ error' = ""
               /\ logoutTimer' = TRUE
               /\ dec' = NoDecrypt /\ wire' = <<req>>
               /\ UNCHANGED localStorage
          ELSE /\ localStorage' = AfterResponse(localStorage, status)
               /\ error' = ApiErrorMessage(status)
               /\ success' = ""
               /\ dec' = NoDecrypt /\ wire' = <<req>>
               /\ UNCHANGED <<server, logoutTimer>>

\* Settings: the timer set after a password change calls onLogout
LogoutTimerFires ==
  /\ logoutTimer
  /\ logoutTimer' = FALSE
  /\ handleLogout(localStorage, pending)
  /\ UNCHANGED <<rng, codecIn, envs, genVars, server, now>>

\* The remote service answers a request of the Vault screen:
\* GET /vault returns the stored envelope, PUT /vault replaces it.
ServerReceive ==
  \E op \in pending, up \in BOOLEAN :
    LET status == IF ~server.session THEN 401 ELSE IF ~up THEN 500 ELSE 200
        reply == [op EXCEPT !.stage = "replied", !.status = status,
                            !.body = IF status = 200 /\ op.kind # "save"
                                     THEN server.encrypted_vault ELSE Null]
    IN /\ op.stage = "sent"
       /\ pending' = (pending \ {op}) \cup {reply}
       /\ server' = IF status = 200 /\ op.kind = "save"
                    THEN [server EXCEPT !.encrypted_vault = op.envelope]
                    ELSE server
       /\ dec' = NoDecrypt /\ wire' = <<>>
       /\ UNCHANGED <<rng, codecIn, envs, genVars, localStorage, isAuthenticated, path,
                      logoutTimer, now, screenVars>>

\* The remote service ends the session
ExpireSession ==
  /\ server.session
  /\ server' = [server EXCEPT !.session = FALSE]
  /\ dec' = NoDecrypt /\ wire' = <<>>
  /\ UNCHANGED <<rng, codecIn, envs, genVars, localStorage, isAuthenticated, path, pending,
                 logoutTimer, now, screenVars>>

\* The untrusted storage changes one byte of the stored envelope
CorruptStorage ==
  \E region \in {"body"} :
    /\ server.encrypted_vault # Null
    /\ ~server.encrypted_vault[6].body /\ ~server.encrypted_vault[6].tag
    /\ server' = [server EXCEPT !.encrypted_vault = TamperEnvelope(@, region)]
    /\ dec' = NoDecrypt /\ wire' = <<>>
    /\ UNCHANGED <<rng, codecIn, envs, genVars, localStorage, isAuthenticated, path, pending,
                   logoutTimer, now, screenVars>>

\* Time passes
Tick ==
  /\ now < MaxClock
  /\ now' = now + 1
  /\ dec' = NoDecrypt /\ wire' = <<>>
  /\ UNCHANGED <<rng, codecIn, envs, genVars, localStorage, isAuthenticated, path, server,
                 pending, logoutTimer, screenVars>>

(***************************************************************************)
(* The Vault screen.                                                       *)
(***************************************************************************)
\* The values of the entry form
EntryForms ==
  {[name |-> "", username |-> "u", password |-> "", url |-> "", notes |-> ""],
   [name |-> "a", username |-> "", password |-> "", url |-> "", notes |-> ""],
   [name |-> "b", username |-> "u", password |-> "s", url |-> "w", notes |-> "t"]}

\* A conversion that keeps the empty string of the form as the field's value
OrUndefinedKeeping(s) == Some(s)

\* entryForm.field || undefined
OrUndefined(s) == IF s = "" THEN Absent ELSE Some(s)

\* Vault.loadVault after api.getVault returned
LoadVaultDone ==
  \E op \in pending :
    LET ls == AfterResponse(localStorage, op.status)
        rest == pending \ {op}
    IN /\ op.kind = "load" /\ op.stage = "replied"
       /\ UNCHANGED <<rng, codecIn, envs, genVars, server, logoutTimer, now>>
       /\ IF op.status = 401
          THEN handleLogout(ls, rest)
          ELSE /\ localStorage' = ls
               /\ pending' = rest
               /\ dec' = NoDecrypt /\ wire' = <<>>
               /\ UNCHANGED <<isAuthenticated, path, saving, success,
                              masterPassword, selectedEntry, viewMode>>
               /\ loading' = FALSE
               /\ IF op.status # 200
                  THEN /\ error' = ApiErrorMessage(op.status)
                       /\ UNCHANGED <<vault, unlocked>>
                  ELSE IF op.body # Null
                  THEN /\ vault' = Null
                       /\ unlocked' = FALSE
                       /\ error' = error
                  ELSE /\ vault' = createEmptyVault
                       /\ unlocked' = TRUE
                       /\ error' = error

\* The master password input of the unlock card
SetMasterPassword ==
  \E p \in MasterPasswords \cup {""} :
    /\ path = "/vault" /\ ~loading /\ ~unlocked
    /\ p # masterPassword
    /\ masterPassword' = p
    /\ dec' = NoDecrypt /\ wire' = <<>>
    /\ UNCHANGED <<rng, codecIn, envs, genVars, localStorage, isAuthenticated, path, server,
                   pending, logoutTimer, now, vault, loading, saving, error,
                   success, unlocked, selectedEntry, viewMode>>

\* Vault.handleUnlock up to the await of api.getVault
UnlockStart ==
  /\ path = "/vault" /\ ~loading /\ ~unlocked
  /\ Cardinality(pending) < MaxInflight
  /\ IF HasToken(localStorage)
     THEN /\ error' = ""
          /\ pending' = pending \cup {[LoadOp EXCEPT !.kind = "unlock",
                                                     !.password = masterPassword]}
          /\ dec' = NoDecrypt /\ wire' = <<GetVaultRequest>>
     ELSE /\ error' = UnlockFailedMessage
          /\ pending' = pending
          /\ dec' = NoDecrypt /\ wire' = <<>>
  /\ UNCHANGED <<rng, codecIn, envs, genVars, localStorage, isAuthenticated, path, server,
                 logoutTimer, now, vault, loading, saving, success,
                 masterPassword, unlocked, selectedEntry, viewMode>>

\* A handleUnlock that tells a changed ciphertext from a wrong password
UnlockOutcomeLeaky(status, body, password) ==
  IF status # 200
  THEN [error |-> UnlockFailedMessage, vault |-> vault, unlocked |-> unlocked]
  ELSE IF body = Null
  THEN [error |-> NoVaultMessage, vault |-> vault, unlocked |-> unlocked]
  ELSE LET decrypted == decryptVault(body, password)
       IN IF IsOk(decrypted)
          THEN [error |-> error, vault |-> decrypted.vault, unlocked |-> TRUE]
          ELSE [error |-> IF body[6].body \/ body[6].tag
                          THEN "Vault data is corrupted" ELSE UnlockFailedMessage,
                vault |-> vault, unlocked |-> unlocked]

\* The effect of the rest of handleUnlock on the screen: the error shown, the
\* vault and unlocked, for the response and the password of the call
UnlockOutcome(status, body, password) ==
  IF status # 200
  THEN [error |-> UnlockFailedMessage, vault |-> vault, unlocked |-> unlocked]
  ELSE IF body = Null
  THEN [error |-> NoVaultMessage, vault |-> vault, unlocked |-> unlocked]
  ELSE LET decrypted == decryptVault(body, password)
       IN IF IsOk(decrypted)
          THEN [error |-> error, vault |-> decrypted.vault, unlocked |-> TRUE]
          ELSE [error |-> UnlockFailedMessage, vault |-> vault, unlocked |-> unlocked]

\* Vault.handleUnlock after api.getVault returned
UnlockDone ==
  \E op \in pending :
    LET outcome == UnlockOutcome(op.status, op.body, op.password)
    IN /\ op.kind = "unlock" /\ op.stage = "replied"
       /\ localStorage' = AfterResponse(localStorage, op.status)
       /\ pending' = pending \ {op}
       /\ wire' = <<>>
       /\ dec' = IF op.status = 200 /\ op.body # Null
                 THEN [envelope |-> op.body,
                       tampered |-> op.body[6].body \/ op.body[6].tag,
                       password |-> op.password,
                       out |-> decryptVault(op.body, op.password)]
                 ELSE NoDecrypt
       /\ error' = outcome.error
       /\ vault' = outcome.vault
       /\ unlocked' = outcome.unlocked
       /\ UNCHANGED <<rng, codecIn, envs, genVars, isAuthenticated, path, server, logoutTimer,
                      now, loading, saving, success, masterPassword,
                      selectedEntry, viewMode>>

\* The main view of the Vault screen is shown
MainView == path = "/vault" /\ ~loading /\ unlocked

\* Vault.handleAddEntry
AddEntry ==
  /\ MainView
  /\ selectedEntry' = Null
  /\ viewMode' = "create"
  /\ dec' = NoDecrypt /\ wire' = <<>>
  /\ UNCHANGED <<rng, codecIn, envs, genVars, localStorage, isAuthenticated, path, server,
                 pending, logoutTimer, now, vault, loading, saving, error,
                 success, masterPassword, unlocked>>

\* Vault.handleSelectEntry: a click on an entry of the list
SelectEntry ==
  \E i \in 1..(IF vault = Null THEN 0 ELSE Len(vault.entries)) :
    /\ MainView
    /\ selectedEntry' = vault.entries[i]
    /\ viewMode' = "view"
    /\ dec' = NoDecrypt /\ wire' = <<>>
    /\ UNCHANGED <<rng, codecIn, envs, genVars, localStorage, isAuthenticated, path, server,
                   pending, logoutTimer, now, vault, loading, saving, error,
                   success, masterPassword, unlocked>>

\* Vault.handleEditEntry(selectedEntry)
EditEntry ==
  /\ MainView /\ viewMode = "view" /\ selectedEntry # Null
  /\ viewMode' = "edit"
  /\ dec' = NoDecrypt /\ wire' = <<>>
  /\ UNCHANGED <<rng, codecIn, envs, genVars, localStorage, isAuthenticated, path, server,
                 pending, logoutTimer, now, vault, loading, saving, error,
                 success, masterPassword, unlocked, selectedEntry>>

\* Vault.handleCancelEdit
CancelEdit ==
  /\ MainView /\ viewMode \in {"create", "edit"}
  /\ viewMode' = "view"
  /\ dec' = NoDecrypt /\ wire' = <<>>
  /\ UNCHANGED <<rng, codecIn, envs, genVars, localStorage, isAuthenticated, path, server,
                 pending, logoutTimer, now, vault, loading, saving, error,
                 success, masterPassword, unlocked, selectedEntry>>

\* A saveVault that encrypts the vault of the screen state instead of its argument
EncryptedStale(updatedVault) ==
  encryptVault(vault, masterPassword, RandomValue(rng, 1), RandomValue(rng, 2))

\* saveVault: the envelope it uploads, encryptVault(updatedVault, masterPassword)
EncryptedForSave(updatedVault) ==
  encryptVault(updatedVault, masterPassword, RandomValue(rng, 1), RandomValue(rng, 2))

\* Vault.saveVault(updatedVault) up to the await of api.updateVault, called by
\* handleSaveEntry and handleDeleteEntry, which set selectedEntry to
\* thenSelect and viewMode to "view" once it returned.  api.updateVault throws
\* before sending when no token is stored.
saveVault(updatedVault, thenSelect) ==
  LET encrypted == EncryptedForSave(updatedVault)
  IN /\ rng < 2 * MaxEncryptions
     /\ rng' = rng + 2
     /\ IF HasToken(localStorage)
        THEN /\ saving' = TRUE
             /\ error' = ""
             /\ pending' = pending \cup
                  {[LoadOp EXCEPT !.kind = "save", !.password = masterPassword,
                                  !.envelope = encrypted,
                                  !.updatedVault = updatedVault,
                                  !.selected = selectedEntry,
                                  !.thenSelect = thenSelect]}
             /\ dec' = NoDecrypt /\ wire' = <<Request("updateVault", [encrypted_vault |-> encrypted],
                                  updatedVault)>>
             /\ UNCHANGED <<selectedEntry, viewMode>>
        ELSE /\ saving' = FALSE
             /\ error' = NoTokenMessage
             /\ pending' = pending
             /\ dec' = NoDecrypt /\ wire' = <<>>
             /\ selectedEntry' = thenSelect
             /\ viewMode' = "view"

\* The entry handleSaveEntry builds from the form
NewEntry(form) ==
  [id |-> IF selectedEntry # Null THEN selectedEntry.id ELSE IdOf(now),
   name |-> form.name,
   username |-> OrUndefined(form.username),
   password |-> OrUndefined(form.password),
   url |-> OrUndefined(form.url),
   notes |-> OrUndefined(form.notes)]

\* A handleSaveEntry that puts a new entry first
SavedEntriesPrepending(newEntry) ==
  IF viewMode = "edit" /\ selectedEntry # Null
  THEN [i \in 1..Len(vault.entries) |->
          IF vault.entries[i].id = selectedEntry.id THEN newEntry ELSE vault.entries[i]]
  ELSE <<newEntry>> \o vault.entries

\* The entries handleSaveEntry saves
SavedEntries(newEntry) ==
  IF viewMode = "edit" /\ selectedEntry # Null
  THEN [i \in 1..Len(vault.entries) |->
          IF vault.entries[i].id = selectedEntry.id THEN newEntry ELSE vault.entries[i]]
  ELSE Append(vault.entries, newEntry)

\* Vault.handleSaveEntry up to the await in saveVault
SaveEntry ==
  \E form \in EntryForms :
    /\ MainView /\ viewMode \in {"create", "edit"} /\ ~saving
    /\ UNCHANGED <<codecIn, envs, genVars, localStorage, isAuthenticated, path, server,
                   logoutTimer, now, vault, loading, success, masterPassword,
                   unlocked>>
    /\ IF vault = Null \/ masterPassword = "" \/ form.name = ""
       THEN /\ dec' = NoDecrypt /\ wire' = <<>>
            /\ UNCHANGED <<rng, pending, saving, error, selectedEntry, viewMode>>
       ELSE saveVault([entries |-> SavedEntries(NewEntry(form))], NewEntry(form))

\* The entries handleDeleteEntry(id) saves
RemainingEntries(id) ==
  LET keep(e) == e.id # id
  IN SelectSeq(vault.entries, keep)

\* Vault.handleDeleteEntry(selectedEntry.id), confirmed, up to the await in
\* saveVault
DeleteEntry ==
  /\ MainView /\ viewMode = "view" /\ selectedEntry # Null
  /\ UNCHANGED <<codecIn, envs, genVars, localStorage, isAuthenticated, path, server,
                 logoutTimer, now, vault, loading, success, masterPassword,
                 unlocked>>
  /\ IF vault = Null \/ masterPassword = ""
     THEN /\ dec' = NoDecrypt /\ wire' = <<>>
          /\ UNCHANGED <<rng, pending, saving, error, selectedEntry, viewMode>>
     ELSE saveVault([entries |-> RemainingEntries(selectedEntry.id)], Null)

\* Vault.saveVault after api.updateVault returned, and the rest of
\* handleSaveEntry or handleDeleteEntry
SaveDone ==
  \E op \in pending :
    /\ op.kind = "save" /\ op.stage = "replied"
    /\ localStorage' = AfterResponse(localStorage, op.status)
    /\ pending' = pending \ {op}
    /\ dec' = NoDecrypt /\ wire' = <<>>
    /\ vault' = IF op.status = 200 THEN op.updatedVault ELSE vault
    /\ error' = IF op.status = 200 THEN error ELSE ApiErrorMessage(op.status)
    /\ saving' = FALSE
    /\ selectedEntry' = op.thenSelect
    /\ viewMode' = "view"
    /\ UNCHANGED <<rng, codecIn, envs, genVars, isAuthenticated, path, server, logoutTimer,
                   now, loading, success, masterPassword, unlocked>>

Next ==
  \/ Navigate
  \/ PageLoad
  \/ Logout
  \/ RegisterSubmit
  \/ LoginSubmit
  \/ ChangePasswordSubmit
  \/ LogoutTimerFires
  \/ ServerReceive
  \/ ExpireSession
  \/ CorruptStorage
  \/ Tick
  \/ LoadVaultDone
  \/ SetMasterPassword
  \/ UnlockStart
  \/ UnlockDone
  \/ AddEntry
  \/ SelectEntry
  \/ EditEntry
  \/ CancelEdit
  \/ SaveEntry
  \/ DeleteEntry
  \/ SaveDone

Spec == Init /\ [][Next]_vars

(***************************************************************************)
(* The Vault screen in use: a session in which the vault has been unlocked *)
(* and holds the entries saved earlier, and the entry operations from      *)
(* there on, several of which may be in flight at once.                    *)
(***************************************************************************)

\* Entries created at clock values 1 and 2
StoredEntries ==
  <<[id |-> IdOf(1), name |-> "a", username |-> Absent, password |-> Absent,
     url |-> Absent, notes |-> Absent],
    [id |-> IdOf(2), name |-> "b", username |-> Some("u"), password |-> Some("s"),
     url |-> Some("w"), notes |-> Some("t")]>>

SavesInit ==
  \E n \in 1..Len(StoredEntries), p \in {"hunter2222"} :
    LET stored == [entries |-> SubSeq(StoredEntries, 1, n)]
    IN /\ rng = 2
       /\ codecIn = [vault |-> createEmptyVault, password |-> ""]
       /\ envs = <<>>
       /\ dec = NoDecrypt
       /\ GeneratorClosed
       /\ localStorage = [theme |-> "dark", session_token |-> SessionToken]
       /\ isAuthenticated = TRUE
       /\ path = "/vault"
       /\ server = [registered |-> TRUE, master_password |-> p,
                    encrypted_vault |-> encryptVault(stored, p, RandomValue(0, 1),
                                                     RandomValue(0, 2)),
                    session |-> TRUE]
       /\ wire = <<>>
       /\ pending = {}
       /\ logoutTimer = FALSE
       /\ now = MaxClock + 1
       /\ vault = stored
       /\ loading = FALSE
       /\ saving = FALSE
       /\ error = ""
       /\ success = ""
       /\ masterPassword = p
       /\ unlocked = TRUE
       /\ selectedEntry = Null
       /\ viewMode = "view"

SavesNext ==
  \/ AddEntry
  \/ SelectEntry
  \/ EditEntry
  \/ CancelEdit
  \/ SaveEntry
  \/ DeleteEntry
  \/ ServerReceive
  \/ SaveDone

SpecSaves == SavesInit /\ [][SavesNext]_vars

GenInit ==
  /\ rng = 0
  /\ codecIn = [vault |-> createEmptyVault, password |-> ""]
  /\ envs = <<>>
  /\ dec = NoDecrypt
  /\ AppStart
  /\ generated = <<>>
  /\ generating = FALSE
  /\ selectedWords = <<>>
  /\ usedIndices = {}
  /\ lastIndex = Null
  /\ sources = {}
  /\ \/ mode = "password" /\ policy \in Policies /\ phrase = DefaultPhrase
     \/ mode = "passphrase" /\ policy = DefaultPolicy /\ phrase \in PhrasePolicies

\* PasswordGenerator.handleOpenChange(true) in password mode: the dialog opens
\* and, having no password yet, calls handleGenerate, which sets the password
\* to what generateRandomPassword returns
OpenGenerator ==
  /\ mode = "password"
  /\ generated = <<>>
  /\ \E out \in generateRandomPassword(policy) :
       /\ generated' = out.password
       /\ sources' = out.sources
  /\ UNCHANGED <<rng, codecVars, appVars, screenVars, mode, policy, phrase,
                 generating, selectedWords, usedIndices, lastIndex>>

\* PasswordGenerator.handleOpenChange(true) in passphrase mode: handleGenerate
\* calls generateRandomPassphrase, which starts with nothing selected
StartPassphrase ==
  /\ mode = "passphrase"
  /\ generated = <<>>
  /\ ~generating
  /\ generating' = TRUE
  /\ selectedWords' = <<>>
  /\ usedIndices' = {}
  /\ lastIndex' = Null
  /\ sources' = {}
  /\ UNCHANGED <<rng, codecVars, appVars, screenVars, mode, policy, phrase, generated>>

\* A loop that takes every index it draws
AcceptsDrawAlways(index) == TRUE

\* generateRandomPassphrase: !usedIndices.has(index)
AcceptsDraw(index) == index \notin usedIndices

\* generateRandomPassphrase: one iteration of the while loop
SelectWord ==
  /\ generating
  /\ Len(selectedWords) < phrase.wordCount
  /\ \E r \in WordRandoms :
       LET index == FloorTimes(r, Len(WORD_LIST))
       IN /\ lastIndex' = Some(index)
          /\ IF AcceptsDraw(index)
             THEN /\ usedIndices' = usedIndices \cup {index}
                  /\ selectedWords' = Append(selectedWords, WORD_LIST[index + 1])
             ELSE UNCHANGED <<usedIndices, selectedWords>>
  /\ sources' = sources \cup {GeneralSource}
  /\ UNCHANGED <<rng, codecVars, appVars, screenVars, mode, policy, phrase,
                 generated, generating>>

\* generateRandomPassphrase after the loop, and handleGenerate's setPassword
FinishPassphrase ==
  /\ generating
  /\ Len(selectedWords) >= phrase.wordCount
  /\ \E rs \in [1..Len(selectedWords) -> MathRandoms], rn \in MathRandoms :
       generated' = FinishedPassphrase(selectedWords, phrase, rs, rn)
  /\ generating' = FALSE
  /\ sources' = sources \cup (IF phrase.capitalize = "random" \/ phrase.includeNumber
                              THEN {GeneralSource} ELSE {})
  /\ UNCHANGED <<rng, codecVars, appVars, screenVars, mode, policy, phrase,
                 selectedWords, usedIndices, lastIndex>>

GenNext == OpenGenerator \/ StartPassphrase \/ SelectWord \/ FinishPassphrase

SpecGen == GenInit /\ [][GenNext]_vars

\* An iteration of the word selection loop that draws an index not used yet
FreshDraw == SelectWord /\ usedIndices' # usedIndices

\* The passphrase mode alone.  generateRandomPassphrase runs to its end once
\* called, and fair random draws draw an unused index sooner or later.
PhraseInit == GenInit /\ mode = "passphrase"

PhraseNext == StartPassphrase \/ SelectWord \/ FinishPassphrase

SpecPhrase ==
  PhraseInit /\ [][PhraseNext]_vars /\ WF_vars(FreshDraw) /\ WF_vars(FinishPassphrase)

(***************************************************************************)
(* The codec on its own: encryptVault and decryptVault applied to every    *)
(* vault and password.                                                     *)
(***************************************************************************)
CodecInit ==
  /\ rng = 0
  /\ AppStart
  /\ GeneratorClosed
  /\ codecIn \in [vault : Vaults, password : MasterPasswords]
  /\ envs = <<>>
  /\ dec = NoDecrypt

\* encryptVault(codecIn.vault, codecIn.password)
CodecEncrypt ==
  /\ Len(envs) < MaxCalls
  /\ envs' = Append(envs, encryptVault(codecIn.vault, codecIn.password,
                                       RandomValue(rng, 1), RandomValue(rng, 2)))
  /\ rng' = rng + 2
  /\ UNCHANGED <<codecIn, dec, appVars, screenVars, genVars>>

\* decryptVault(envs[i], password)
CodecDecrypt ==
  \E i \in 1..Len(envs), password \in MasterPasswords :
    /\ dec' = [envelope |-> envs[i], tampered |-> FALSE, password |-> password,
               out |-> decryptVault(envs[i], password)]
    /\ UNCHANGED <<rng, codecIn, envs, appVars, screenVars, genVars>>

\* decryptVault of envs[i] after one byte of its ciphertext or tag changed
CodecDecryptTampered ==
  \E i \in 1..Len(envs), region \in {"body", "tag"} :
    LET envelope == TamperEnvelope(envs[i], region)
    IN /\ dec' = [envelope |-> envelope, tampered |-> TRUE,
                  password |-> codecIn.password,
                  out |-> decryptVault(envelope, codecIn.password)]
       /\ UNCHANGED <<rng, codecIn, envs, appVars, screenVars, genVars>>

CodecNext == CodecEncrypt \/ CodecDecrypt \/ CodecDecryptTampered

SpecCodec == CodecInit /\ [][CodecNext]_vars

(***************************************************************************)
(* Properties of the codec.                                                *)
(***************************************************************************)

\* C1: round trip: decryptVault(encryptVault(V, P), P) returns a vault equal
\* to V, with the same entries in the same order and the same optional
\* fields present.
RoundTrip ==
  (dec # NoDecrypt /\ ~dec.tampered /\ dec.password = codecIn.password)
    => dec.out = Ok(codecIn.vault)

RoundTripWitness ==
  /\ dec # NoDecrypt /\ ~dec.tampered /\ dec.password = codecIn.password
  /\ IsOk(dec.out)
  /\ Len(codecIn.vault.entries) = 2
  /\ codecIn.vault.entries[1].id = IdOf(2)
  /\ codecIn.vault.entries[1].username = Absent
  /\ codecIn.vault.entries[1].notes # Absent
  /\ codecIn.vault.entries[2].url # Absent

\* C2: wrong-password rejection: decryptVault(encryptVault(V, P1), P2) with
\* P1 # P2 fails with AuthenticationFailed and returns no vault.
WrongPasswordRejected ==
  (dec # NoDecrypt /\ ~dec.tampered /\ dec.password # codecIn.password)
    => dec.out = AuthenticationFailed

WrongPasswordWitness ==
  /\ dec # NoDecrypt /\ ~dec.tampered /\ dec.password # codecIn.password
  /\ ~IsOk(dec.out)
  /\ Len(codecIn.vault.entries) > 0

\* C3: tamper detection: after a change of one byte of the ciphertext or tag
\* region of an envelope, decryptVault with the correct password fails with
\* AuthenticationFailed and returns no vault.
TamperDetected ==
  (dec # NoDecrypt /\ dec.tampered /\ dec.password = codecIn.password)
    => dec.out = AuthenticationFailed

TamperWitnessBody ==
  /\ dec # NoDecrypt /\ dec.tampered /\ dec.password = codecIn.password
  /\ dec.envelope[6].body
  /\ ~IsOk(dec.out)

\* C4: salt and nonce freshness: every encryptVault call draws a new salt and
\* a new nonce, no (key, nonce) pair is used twice, and two encryptions of
\* the same vault under the same password give different envelope strings.
FreshSaltAndNonce ==
  \A i, j \in 1..Len(envs) :
    i # j =>
      /\ envs[i][4] # envs[j][4]
      /\ envs[i][5] # envs[j][5]
      /\ <<envs[i][6].key, envs[i][6].nonce>> # <<envs[j][6].key, envs[j][6].nonce>>
      /\ envs[i] # envs[j]

FreshWitness == Len(envs) = 2 /\ envs[1][6].pt = envs[2][6].pt

(***************************************************************************)
(* Properties of the application.                                          *)
(***************************************************************************)

\* C5: only ciphertext leaves process memory: the encrypted_vault of every
\* register request and of every PUT /vault request is the output of
\* encryptVault on the vault being stored, no other field of a request holds
\* a vault, and localStorage holds the session token and the theme only.
OnlyCiphertextLeaves ==
  /\ \A i \in 1..Len(wire) :
       /\ wire[i].op \in {"register", "updateVault"} =>
            \E p \in MasterPasswords :
              decryptVault(wire[i].body.encrypted_vault, p) = Ok(wire[i].storing)
       /\ \A f \in DOMAIN wire[i].body \ {"encrypted_vault"} :
            wire[i].body[f] \in {Email, ShortPassword} \cup MasterPasswords
  /\ \A k \in DOMAIN localStorage :
       /\ k \in {"session_token", "theme"}
       /\ localStorage[k] \in {SessionToken, "dark"}

OnlyCiphertextWitness ==
  \E i \in 1..Len(wire) :
    /\ wire[i].op = "updateVault"
    /\ Len(wire[i].storing.entries) = 2
    /\ vault # Null /\ Len(vault.entries) = 1

\* C6: the server never sees the master password: no request carries, next
\* to the envelope or in any request, a password under which the envelope of
\* the request or the envelope the server stores decrypts.
ServerNeverSeesMasterPassword ==
  \A i \in 1..Len(wire) :
    \A f \in DOMAIN wire[i].body \ {"encrypted_vault"} :
      /\ "encrypted_vault" \in DOMAIN wire[i].body =>
           ~IsOk(decryptVault(wire[i].body.encrypted_vault, wire[i].body[f]))
      /\ server.encrypted_vault # Null =>
           ~IsOk(decryptVault(server.encrypted_vault, wire[i].body[f]))

\* C7: the master password is not retained: once the decryptVault call of
\* handleUnlock has returned, with a vault or with an error, the Vault screen
\* holds no copy of the master password.
MasterPasswordNotRetained ==
  dec # NoDecrypt => masterPassword = ""

\* C8: changing the master password re-encrypts everything: after
\* handleChangePassword succeeded, the envelope the server stores decrypts
\* under the new master password of the account.
ChangePasswordReencrypts ==
  (/\ success = ChangedMessage
   /\ server.encrypted_vault # Null
   /\ ~server.encrypted_vault[6].body /\ ~server.encrypted_vault[6].tag)
    => IsOk(decryptVault(server.encrypted_vault, server.master_password))

\* C9: undifferentiated authentication failure: when the decryptVault call of
\* handleUnlock fails, for a wrong password as for a changed ciphertext, it
\* reports AuthenticationFailed, and handleUnlock shows the same message and
\* leaves vault and unlocked as they were (null and locked on the unlock
\* card).
UndifferentiatedFailure ==
  [][(dec' # NoDecrypt /\ ~IsOk(dec'.out)) =>
       /\ dec'.out = AuthenticationFailed
       /\ error' = UnlockFailedMessage
       /\ vault' = vault /\ unlocked' = unlocked
       /\ ~unlocked => (vault' = Null /\ ~unlocked')]_vars

UndifferentiatedWitness ==
  /\ dec # NoDecrypt /\ ~IsOk(dec.out)
  /\ dec.tampered /\ dec.password = server.master_password
  /\ error = UnlockFailedMessage /\ vault = Null /\ ~unlocked

(***************************************************************************)
(* Properties of the password generator.                                   *)
(***************************************************************************)

\* C10: invalid policy rejection: when the active character set is empty,
\* generatePassword fails with InvalidPolicy: no password is returned and no
\* default character set is substituted.
InvalidPolicyRejected ==
  (mode = "password" /\ Len(ActiveCharset(policy)) = 0) => generated = <<>>

\* C11: category coverage: the password returned contains at least one
\* character of each enabled category, for every outcome of the random draws
\* and of the injection positions.
CategoryCoverage ==
  (mode = "password" /\ generated # <<>>) =>
    \A k \in 1..Len(EnsureChars(policy)) :
      \E i \in 1..Len(generated) : generated[i] \in Chars(EnsureChars(policy)[k])

\* C12: exact length: the password returned has exactly the requested
\* length, also after the coverage step replaced characters.
ExactLength ==
  (mode = "password" /\ generated # <<>>) => Len(generated) = policy.length

ExactLengthWitness ==
  /\ mode = "password" /\ generated # <<>>
  /\ policy.includeUppercase /\ policy.includeNumbers /\ policy.includeSymbols
  /\ \E i \in 1..Len(generated) : generated[i] \in Chars(numbers)
  /\ \E i \in 1..Len(generated) : generated[i] \in Chars(symbols)

\* C13: exclude-ambiguous: when excludeAmbiguous is set, no character of the
\* password returned is one of i l 1 L o 0 O, the characters placed by the
\* coverage step included.
NoAmbiguousCharacter ==
  (mode = "password" /\ generated # <<>> /\ policy.excludeAmbiguous) =>
    \A i \in 1..Len(generated) : generated[i] \notin Chars(ambiguous)

\* C15: unbiased character draw: every index of the charset drawn from is
\* selected by the same number of values of the random word.
UnbiasedDraw ==
  (mode = "password" /\ generated # <<>> /\ Len(ActiveCharset(policy)) > 0) =>
    LET n == Len(ActiveCharset(policy))
    IN \A i, j \in 0..(n - 1) : WordsSelecting(i, n) = WordsSelecting(j, n)

\* C14: secure randomness only: every random choice of a password or
\* passphrase generation is drawn from the cryptographically secure source,
\* none from a general-purpose pseudo-random generator.
SecureRandomOnly ==
  sources \subseteq {SecureSource}

\* C16: distinct words: the words of a passphrase returned are pairwise
\* different strings (they are lower case before capitalization).
DistinctWords ==
  (mode = "passphrase" /\ generated # <<>>) =>
    \A i, j \in 1..Len(selectedWords) :
      i # j => selectedWords[i] # selectedWords[j]

\* C17: passphrase structure: the passphrase returned is exactly wordCount
\* dictionary words joined by the separator, none capitalized in mode none,
\* the first only in mode first, every one in mode all, followed by the
\* separator and a number in 0..9998 when includeNumber is set and by nothing
\* when it is not.
PassphraseStructure ==
  (mode = "passphrase" /\ generated # <<>> /\ phrase.capitalize # "random") =>
    LET expected ==
          [i \in 1..Len(selectedWords) |->
             IF phrase.capitalize = "all" \/ (phrase.capitalize = "first" /\ i = 1)
             THEN <<ToUpperCase(selectedWords[i][1])>> \o Tail(selectedWords[i])
             ELSE selectedWords[i]]
        body == Join(expected, phrase.separator)
        rest == SubSeq(generated, Len(body) + 1, Len(generated))
        digits == SubSeq(rest, Len(phrase.separator) + 1, Len(rest))
    IN /\ Len(selectedWords) = phrase.wordCount
       /\ \A i \in 1..Len(selectedWords) :
            \E w \in 1..Len(WORD_LIST) : selectedWords[i] = WORD_LIST[w]
       /\ Len(generated) >= Len(body)
       /\ SubSeq(generated, 1, Len(body)) = body
       /\ IF phrase.includeNumber
          THEN /\ Len(rest) > Len(phrase.separator)
               /\ SubSeq(rest, 1, Len(phrase.separator)) = phrase.separator
               /\ Len(digits) <= 4
               /\ \A i \in 1..Len(digits) : digits[i] \in Chars(numbers)
               /\ Len(digits) > 1 => digits[1] # "0"
               /\ digits # <<"9", "9", "9", "9">>
          ELSE rest = <<>>

PassphraseStructureWitness ==
  /\ mode = "passphrase" /\ generated # <<>>
  /\ phrase.capitalize = "first" /\ phrase.includeNumber
  /\ phrase.separator = <<"-">>
  /\ Len(selectedWords) = phrase.wordCount
  /\ generated[1] \in Chars(uppercase)

(***************************************************************************)
(* Properties of the entries of the vault.                                 *)
(***************************************************************************)

\* C19: entry ids are unique and stable: after any sequence of create, edit
\* and delete operations no two entries of the vault have the same id, and
\* editing an entry (a save that keeps the number of entries) changes no id.
EntryIdsUniqueAndStable ==
  [][/\ vault' # Null => UniqueIds(vault'.entries)
     /\ (vault # Null /\ vault' # Null /\ Len(vault'.entries) = Len(vault.entries)) =>
          \A i \in 1..Len(vault.entries) : vault'.entries[i].id = vault.entries[i].id]_vars

\* An entry with a non-empty name whose optional fields are absent or hold a
\* non-empty string
WellFormedEntry(e) ==
  /\ e.name # ""
  /\ \A f \in {"username", "password", "url", "notes"} :
       e[f] = Absent \/ (Len(e[f]) = 1 /\ e[f][1] # "")

\* C20: entry well-formedness: every entry that handleSaveEntry puts into a
\* vault (the one it uploads, the one the screen holds afterwards) has a
\* non-empty name and optional fields that are absent or non-empty strings;
\* a save with an empty name uploads nothing.
EntriesWellFormed ==
  /\ vault # Null => \A i \in 1..Len(vault.entries) : WellFormedEntry(vault.entries[i])
  /\ \A k \in 1..Len(wire) :
       wire[k].op = "updateVault" =>
         \A i \in 1..Len(wire[k].storing.entries) :
           WellFormedEntry(wire[k].storing.entries[i])

EntriesWellFormedWitness ==
  /\ vault # Null /\ Len(vault.entries) = 2
  /\ vault.entries[1].username = Absent
  /\ vault.entries[2].notes # Absent

(***************************************************************************)
(* Properties of concurrent calls of the Vault screen.                     *)
(***************************************************************************)

\* The master password an envelope was encrypted under
EnvelopePassword(envelope) == envelope[6].key[1]

\* C21: every envelope saveVault uploads is encrypted under the master
\* password that decrypted the vault in handleUnlock, which is the password
\* of the envelope the server stores, also when the password field was
\* edited while the unlock request was pending.
SavesUnderUnlockPassword ==
  \A k \in 1..Len(wire) :
    wire[k].op = "updateVault" =>
      EnvelopePassword(wire[k].body.encrypted_vault) =
        EnvelopePassword(server.encrypted_vault)

\* C22: client and server converge: in every interleaving of saves issued
\* from one Vault screen, with requests and responses in any order, once no
\* save is in flight the local vault is the vault in the envelope the server
\* holds.
ClientServerConverge ==
  (path = "/vault" /\ unlocked /\ vault # Null /\ pending = {}) =>
    decryptVault(server.encrypted_vault, EnvelopePassword(server.encrypted_vault)) =
      Ok(vault)

\* C23: no lost update: a save that completes successfully changes only the
\* entries with the id it is about, so that every change installed by an
\* earlier completed save is still in the vault, also when the save started
\* before the earlier one finished.
NoLostUpdate ==
  [][\A op \in pending \ pending' :
       (op.kind = "save" /\ op.status = 200) =>
         LET target == IF op.thenSelect = Null THEN op.selected.id ELSE op.thenSelect.id
             other(e) == e.id # target
         IN SelectSeq(vault'.entries, other) = SelectSeq(vault.entries, other)]_vars

(***************************************************************************)
(* Properties of the session and of the state of the Vault screen.         *)
(***************************************************************************)

\* C24: a 401 on any API call ends the session: the token is removed and
\* isAuthenticated becomes false, so that isAuthenticated without a stored
\* token is never a state the application rests in (no call pending, no
\* logout scheduled).
SessionEndsOn401 ==
  (pending = {} /\ ~logoutTimer /\ isAuthenticated) => HasToken(localStorage)

\* C25: unlocked implies a usable key: the vault is non-null and
\* masterPassword is non-empty, so that a save from an unlocked vault is
\* never dropped by the guards of handleSaveEntry and handleDeleteEntry.
UnlockedImpliesKey ==
  unlocked => (vault # Null /\ masterPassword # "")

\* C26: in view mode, with no save in flight, a non-null selectedEntry is an
\* entry of the local vault, also after a save or a delete failed.
SelectedEntryStored ==
  (path = "/vault" /\ viewMode = "view" /\ selectedEntry # Null /\ pending = {}) =>
    (vault # Null /\ \E i \in 1..Len(vault.entries) : vault.entries[i] = selectedEntry)

\* C28: route guard: the Vault and Settings screens are rendered only while
\* isAuthenticated is true, and Login, Register and Landing only while it is
\* false; isAuthenticated turns true only in a step that sent a login
\* request and left a token stored, so that after handleLogout neither
\* Vault nor Settings is rendered before a login succeeded.
RouteGuard ==
  /\ [](path \in {"/vault", "/settings"} <=> isAuthenticated)
  /\ [][(~isAuthenticated /\ isAuthenticated') =>
          /\ HasToken(localStorage')
          /\ \E k \in 1..Len(wire') : wire'[k].op = "login"]_vars

\* A login succeeded after an earlier session, which saved an entry, had
\* ended: the Vault screen is rendered again
RouteGuardWitness ==
  /\ path = "/vault" /\ isAuthenticated /\ HasToken(localStorage)
  /\ Len(wire) = 2 /\ wire[1].op = "login"
  /\ server.encrypted_vault # Null /\ server.encrypted_vault[6].pt # <<>>

PassphraseLoopTerminates ==
  /\ [](/\ Cardinality(usedIndices) = Len(selectedWords)
        /\ Len(selectedWords) <= phrase.wordCount)
  /\ [][(generating /\ generating' /\ lastIndex' # Null) =>
          IF lastIndex'[1] \in usedIndices
          THEN UNCHANGED <<selectedWords, usedIndices>>
          ELSE /\ usedIndices' = usedIndices \cup {lastIndex'[1]}
               /\ selectedWords' = Append(selectedWords, WORD_LIST[lastIndex'[1] + 1])]_vars
  /\ generating ~> (generating /\ Len(selectedWords) = phrase.wordCount)
  /\ generating ~> ~generating

\* The loop ended after its last draw
PassphraseLoopWitness ==
  /\ generating /\ lastIndex # Null
  /\ Len(selectedWords) = phrase.wordCount
  /\ Cardinality(usedIndices) = phrase.wordCount

====
